---- MODULE Spec2Model ----
(***************************************************************************)
(* Model of the TeamCity provider's mapping layer: the parameter codec,    *)
(* the build-step codec, the set hashers and the create/read/update/delete *)
(* handlers of the project and build_configuration resources.              *)
(*                                                                         *)
(* Strings whose characters matter (step fields that are concatenated into *)
(* the hash text, checkout rules that are joined and split) are sequences  *)
(* of one-character strings; <<>> is the empty string.  Names, ids and     *)
(* descriptions, which the code only copies and tests for emptiness, are   *)
(* plain strings.                                                          *)
(***************************************************************************)
EXTENDS Integers, Sequences, FiniteSets, TLC

VARIABLES d, cfg, remote, calls, last

vars == <<d, cfg, remote, calls, last>>

(* ------------------------------ bounds --------------------------------- *)

MaxSteps == 2

MaxRules == 2

(* ------------------------- generic helpers ----------------------------- *)

Has(m, k) == k \in DOMAIN m

Put(m, k, v) == [x \in (DOMAIN m) \cup {k} |-> IF x = k THEN v ELSE m[x]]

Restrict(m, ks) == [x \in (DOMAIN m) \cap ks |-> m[x]]

NoMap == [x \in {} |-> x]

SeqsUpTo(S, n) == UNION {[1..k -> S] : k \in 0..n}

Range(s) == {s[i] : i \in DOMAIN s}

Min(S) == CHOOSE x \in S : \A y \in S : x <= y

NoErr == [msg |-> "", arg |-> ""]

Err(m, a) == [msg |-> m, arg |-> a]

IsErr(e) == e.msg # ""

(* --------------------- schema.ResourceData access ---------------------- *)

StringKeys == {"id", "name", "description", "project_id"}

\* d.GetOk: the key is set and its value is not the zero value of its type.
GetOk(dd, k) ==
    /\ Has(dd, k)
    /\ IF k \in StringKeys THEN dd[k] # "" ELSE dd[k] # <<>>

\* d.Set
Set(dd, k, v) == Put(dd, k, v)

(* -------------------------- parameter codec ---------------------------- *)

ParamTypeConfiguration == "configuration"

ParamTypeSystem == "system"

ParamTypeEnv == "env"

\* api.NewParametersEmpty
NewParametersEmpty == <<>>

\* Parameters.AddOrReplaceParameter: a member with the same kind and name
\* has its value replaced in place, otherwise the parameter is appended.
AddOrReplaceParameter(out, p) ==
    IF \E i \in DOMAIN out : out[i].Type = p.Type /\ out[i].Name = p.Name
    THEN [i \in DOMAIN out |->
            IF out[i].Type = p.Type /\ out[i].Name = p.Name
            THEN [out[i] EXCEPT !.Value = p.Value] ELSE out[i]]
    ELSE Append(out, p)

\* Parameters.Concat: add-or-replace every member of source, in order.
RECURSIVE Concat(_, _)
Concat(out, source) ==
    IF source = <<>> THEN out
    ELSE Concat(AddOrReplaceParameter(out, Head(source)), Tail(source))

\* expandParameters: one NewParameter per map entry; the first constructor
\* error aborts the whole collection.  rej is the set of names the SDK
\* constructor refuses.  Go leaves the map's iteration order unspecified;
\* the keys are taken in ascending order and collections are only ever
\* compared as unordered.
RECURSIVE ExpandKeys(_, _, _, _)
ExpandKeys(raw, keys, paramType, out) ==
    IF keys = {} THEN out
    ELSE LET k == Min(keys)
         IN  ExpandKeys(raw, keys \ {k}, paramType,
                 AddOrReplaceParameter(out,
                     [Type |-> paramType, Name |-> k, Value |-> raw[k]]))

expandParameters(raw, paramType, rej) ==
    IF (DOMAIN raw) \cap rej # {}
    THEN [err |-> Err("NewParameter", Min((DOMAIN raw) \cap rej)), out |-> <<>>]
    ELSE [err |-> NoErr,
          out |-> ExpandKeys(raw, DOMAIN raw, paramType, NewParametersEmpty)]

expandParameterCollection(dd, rej) ==
    LET env    == IF GetOk(dd, "env_params")
                  THEN expandParameters(dd["env_params"], ParamTypeEnv, rej)
                  ELSE [err |-> NoErr, out |-> <<>>]
        system == IF GetOk(dd, "sys_params")
                  THEN expandParameters(dd["sys_params"], ParamTypeSystem, rej)
                  ELSE [err |-> NoErr, out |-> <<>>]
        config == IF GetOk(dd, "config_params")
                  THEN expandParameters(dd["config_params"], ParamTypeConfiguration, rej)
                  ELSE [err |-> NoErr, out |-> <<>>]
    IN  IF IsErr(env.err) THEN [err |-> env.err, out |-> <<>>]
        ELSE IF IsErr(system.err) THEN [err |-> system.err, out |-> <<>>]
        ELSE IF IsErr(config.err) THEN [err |-> config.err, out |-> <<>>]
        ELSE [err |-> NoErr,
              out |-> Concat(Concat(Concat(NewParametersEmpty, config.out),
                                    system.out), env.out)]

\* flattenParameters: partition the members by kind, later members of the
\* same kind and name overwrite earlier ones.
RECURSIVE FlattenKind(_, _, _)
FlattenKind(items, paramType, acc) ==
    IF items = <<>> THEN acc
    ELSE LET p == Head(items)
         IN  FlattenKind(Tail(items), paramType,
                 IF p.Type = paramType THEN Put(acc, p.Name, p.Value) ELSE acc)

flattenParametersSwapped(dt) ==
    [config |-> FlattenKind(dt, ParamTypeConfiguration, NoMap),
     sys    |-> FlattenKind(dt, ParamTypeEnv, NoMap),
     env    |-> FlattenKind(dt, ParamTypeSystem, NoMap)]

flattenParameters(dt) ==
    [config |-> FlattenKind(dt, ParamTypeConfiguration, NoMap),
     sys    |-> FlattenKind(dt, ParamTypeSystem, NoMap),
     env    |-> FlattenKind(dt, ParamTypeEnv, NoMap)]

\* flattenParameterCollection: a kind is written to d only when it has members.
flattenParameterCollection(dd, params) ==
    LET f  == flattenParameters(params)
        d1 == IF DOMAIN f.env # {} THEN Set(dd, "env_params", f.env) ELSE dd
        d2 == IF DOMAIN f.sys # {} THEN Set(d1, "sys_params", f.sys) ELSE d1
        d3 == IF DOMAIN f.config # {} THEN Set(d2, "config_params", f.config) ELSE d2
    IN  d3

(* ---------------------------- step codec ------------------------------- *)

StepTypePowershell == "jetbrains_powershell"

StepTypeCommandLine == "simpleRunner"

\* stepTypeMap lookup; a missing entry gives Go's zero value "".
stepTypeMap(t) ==
    IF t = StepTypePowershell THEN "powershell"
    ELSE IF t = StepTypeCommandLine THEN "cmd_line"
    ELSE ""

flattenBuildStepPowershell(s) ==
    LET m0 == NoMap
        m1 == IF s.ScriptFile # <<>>
              THEN LET mf == Put(m0, "file", s.ScriptFile)
                   IN  IF s.ScriptArgs # <<>> THEN Put(mf, "args", s.ScriptArgs) ELSE mf
              ELSE m0
        m2 == IF s.Code # <<>> THEN Put(m1, "code", s.Code) ELSE m1
        m3 == IF s.Name # <<>> THEN Put(m2, "name", s.Name) ELSE m2
    IN  Put(m3, "type", "powershell")

flattenBuildStepCmdLine(s) ==
    LET m0 == NoMap
        m1 == IF s.CommandExecutable # <<>>
              THEN LET mf == Put(m0, "file", s.CommandExecutable)
                   IN  IF s.CommandParameters # <<>>
                       THEN Put(mf, "args", s.CommandParameters) ELSE mf
              ELSE m0
        m2 == IF s.CustomScript # <<>> THEN Put(m1, "code", s.CustomScript) ELSE m1
        m3 == IF s.Name # <<>> THEN Put(m2, "name", s.Name) ELSE m2
    IN  Put(m3, "type", "cmd_line")

flattenBuildStep(s) ==
    LET mapType == stepTypeMap(s.Type)
    IN  IF mapType = "powershell"
        THEN [err |-> NoErr, out |-> flattenBuildStepPowershell(s)]
        ELSE IF mapType = "cmd_line"
        THEN [err |-> NoErr, out |-> flattenBuildStepCmdLine(s)]
        ELSE [err |-> Err("Build step type not supported", s.Type), out |-> NoMap]

\* The SDK's step constructors store their arguments as given.
NewStepCommandLineExecutable(name, file, args) ==
    [Type |-> StepTypeCommandLine, Name |-> name, CommandExecutable |-> file,
     CommandParameters |-> args, CustomScript |-> <<>>]

NewStepCommandLineScript(name, code) ==
    [Type |-> StepTypeCommandLine, Name |-> name, CommandExecutable |-> <<>>,
     CommandParameters |-> <<>>, CustomScript |-> code]

NewStepPowershellScriptFile(name, file, args) ==
    [Type |-> StepTypePowershell, Name |-> name, ScriptFile |-> file,
     ScriptArgs |-> args, Code |-> <<>>]

NewStepPowershellCode(name, code) ==
    [Type |-> StepTypePowershell, Name |-> name, ScriptFile |-> <<>>,
     ScriptArgs |-> <<>>, Code |-> code]

\* v, ok := dt[k]; a missing key leaves the variable at its zero value.
FieldOr(dt, k) == IF Has(dt, k) THEN dt[k] ELSE <<>>

expandStepCmdLineCodeFirst(dt) ==
    IF FieldOr(dt, "code") # <<>>
    THEN NewStepCommandLineScript(FieldOr(dt, "name"), FieldOr(dt, "code"))
    ELSE NewStepCommandLineExecutable(FieldOr(dt, "name"), FieldOr(dt, "file"),
                                      FieldOr(dt, "args"))

expandStepCmdLine(dt) ==
    LET file == FieldOr(dt, "file")
        args == FieldOr(dt, "args")
        name == FieldOr(dt, "name")
        code == FieldOr(dt, "code")
    IN  IF file # <<>>
        THEN NewStepCommandLineExecutable(name, file, args)
        ELSE NewStepCommandLineScript(name, code)

expandStepPowershell(dt) ==
    LET file == FieldOr(dt, "file")
        args == FieldOr(dt, "args")
        name == FieldOr(dt, "name")
        code == FieldOr(dt, "code")
    IN  IF file # <<>>
        THEN NewStepPowershellScriptFile(name, file, args)
        ELSE NewStepPowershellCode(name, code)

NoStep == [Type |-> ""]

expandBuildStep(raw) ==
    LET t == raw["type"]
    IN  IF t = "powershell" THEN [err |-> NoErr, step |-> expandStepPowershell(raw)]
        ELSE IF t = "cmd_line" THEN [err |-> NoErr, step |-> expandStepCmdLine(raw)]
        ELSE [err |-> Err("Unsupported step type", t), step |-> NoStep]

(* ------------------------------ hashers -------------------------------- *)

\* The text stepSetHash writes to its buffer before hashing: "%s-" of the
\* type, then "%s-" of name, file and args, each only when the key is present.
\* The type tag is one token of the text.
stepSetHashText(m) ==
    LET b0 == <<m["type"], "-">>
        b1 == IF Has(m, "name") THEN b0 \o m["name"] \o <<"-">> ELSE b0
        b2 == IF Has(m, "file") THEN b1 \o m["file"] \o <<"-">> ELSE b1
        b3 == IF Has(m, "args") THEN b2 \o m["args"] \o <<"-">> ELSE b2
    IN  b3

\* vcsRootHash hashes the id alone.
vcsRootHashText(raw) == raw["id"]

(* --------------------------- checkout rules ---------------------------- *)

\* The separator literal "\\n" of the source: a backslash followed by n.
RuleSep == <<"\\", "n">>

\* strings.Join
RECURSIVE Join(_, _)
Join(elems, sep) ==
    IF elems = <<>> THEN <<>>
    ELSE IF Len(elems) = 1 THEN elems[1]
    ELSE elems[1] \o sep \o Join(Tail(elems), sep)

HasPrefix(s, p) == Len(s) >= Len(p) /\ SubSeq(s, 1, Len(p)) = p

\* strings.Split with a non-empty separator: cut at every non-overlapping
\* occurrence, left to right; n occurrences give n+1 pieces.
RECURSIVE SplitFrom(_, _, _)
SplitFrom(s, sep, cur) ==
    IF s = <<>> THEN <<cur>>
    ELSE IF HasPrefix(s, sep)
    THEN <<cur>> \o SplitFrom(SubSeq(s, Len(sep) + 1, Len(s)), sep, <<>>)
    ELSE SplitFrom(Tail(s), sep, Append(cur, Head(s)))

Split(s, sep) == SplitFrom(s, sep, <<>>)

buildVcsRootEntry(raw) ==
    LET rawRules == raw["checkout_rules"]
        toAttachRules == IF Len(rawRules) > 0 THEN Join(rawRules, RuleSep) ELSE <<>>
    IN  [ID |-> raw["id"], CheckoutRules |-> toAttachRules]

\* The element resourceBuildConfigurationRead builds for one remote entry.
flattenVcsRootEntry(el) ==
    [id |-> el.ID, checkout_rules |-> Split(el.CheckoutRules, RuleSep)]

(* ------------------- build_configuration handlers ---------------------- *)

\* The n-th collaborator call of a handler fails when n = failAt (0: none
\* fails).  A failed call leaves the server as it was.
NextCallFails(st, failAt) == Len(st.calls) + 1 = failAt

\* One collaborator call: which one, the step it carried, whether it succeeded.
Call(n, s) == [name |-> n, step |-> s, ok |-> TRUE]

Called(st, n, s) == [st EXCEPT !.calls = Append(@, Call(n, s))]

\* The call just made returned an error, which the handler returns.
Failed(st, n) == [st EXCEPT !.err = Err(n, ""), !.calls[Len(st.calls)].ok = FALSE]

NoBuildType ==
    [exists |-> FALSE, ID |-> "", Name |-> "", Description |-> "", ProjectID |-> "",
     Parameters |-> <<>>, VcsRootEntries |-> <<>>, Steps |-> <<>>]

BuildTypeID == "bt1"

\* d.Partial(true) ... d.SetPartial(k): when the handler returns an error in
\* partial mode only the id and the keys marked with SetPartial are kept.
PartialState(st) ==
    CHOOSE r \in {IF IsErr(x.err) /\ x.partial
                  THEN [x EXCEPT !.d = Restrict(@, {"id"} \cup x.partialKeys)]
                  ELSE x : x \in {st}} : TRUE

\* "if err != nil { return err }": the rest of the handler runs on the state
\* reached so far, unless an error has been returned.
OrReturn(st, Rest(_)) ==
    CHOOSE r \in {IF IsErr(x.err) THEN x ELSE Rest(x) : x \in {st}} : TRUE

NewState(dd, rem) ==
    [d |-> dd, remote |-> rem, calls |-> <<>>, err |-> NoErr,
     partial |-> FALSE, partialKeys |-> {}]

\* client.BuildTypes.AttachVcsRootEntry(created.ID, toAttach)
AttachVcsRootEntry(st, toAttach, failAt) ==
    IF NextCallFails(st, failAt)
    THEN Failed(Called(st, "AttachVcsRootEntry", NoStep), "AttachVcsRootEntry")
    ELSE [Called(st, "AttachVcsRootEntry", NoStep)
             EXCEPT !.remote.VcsRootEntries = Append(@, toAttach)]

\* for _, raw := range vcs { ... }
RECURSIVE AttachLoop(_, _, _, _)
AttachLoop(vcs, i, st, failAt) ==
    IF i > Len(vcs) THEN st
    ELSE OrReturn(AttachVcsRootEntry(st, buildVcsRootEntry(vcs[i]), failAt),
                  LAMBDA s : AttachLoop(vcs, i + 1, s, failAt))

\* client.BuildTypes.AddStep(created.ID, newStep)
AddStep(st, newStep, failAt) ==
    IF NextCallFails(st, failAt)
    THEN Failed(Called(st, "AddStep", newStep), "AddStep")
    ELSE [Called(st, "AddStep", newStep) EXCEPT !.remote.Steps = Append(@, newStep)]

\* newStep, err := expandBuildStep(raw); ...; AddStep(created.ID, newStep)
ExpandAndAdd(st, raw, failAt) ==
    CHOOSE r \in {IF IsErr(e.err) THEN [st EXCEPT !.err = e.err]
                  ELSE AddStep(st, e.step, failAt) : e \in {expandBuildStep(raw)}} : TRUE

RECURSIVE StepLoopNoAbort(_, _, _, _)
StepLoopNoAbort(steps, i, st, failAt) ==
    IF i > Len(steps) THEN st
    ELSE CHOOSE r \in {StepLoopNoAbort(steps, i + 1, s, failAt) :
                           s \in {ExpandAndAdd(st, steps[i], failAt)}} : TRUE

\* for _, raw := range steps { ... }
RECURSIVE StepLoop(_, _, _, _)
StepLoop(steps, i, st, failAt) ==
    IF i > Len(steps) THEN st
    ELSE OrReturn(ExpandAndAdd(st, steps[i], failAt),
                  LAMBDA s : StepLoop(steps, i + 1, s, failAt))

\* for _, el := range steps { flattenBuildStep(el) }: the first error aborts.
RECURSIVE FlattenSteps(_, _)
FlattenSteps(steps, acc) ==
    IF steps = <<>> THEN [err |-> NoErr, out |-> acc]
    ELSE OrReturn(flattenBuildStep(Head(steps)),
                  LAMBDA l : FlattenSteps(Tail(steps), Append(acc, l.out)))

FlattenVcs(entries) == [i \in DOMAIN entries |-> flattenVcsRootEntry(entries[i])]

\* getBuildConfiguration(client, d.Id())
GetByID(st, failAt) ==
    IF NextCallFails(st, failAt) \/ ~st.remote.exists
    THEN Failed(Called(st, "BuildTypes.GetByID", NoStep), "BuildTypes.GetByID")
    ELSE Called(st, "BuildTypes.GetByID", NoStep)

\* name, description, project_id, the parameters and the VCS roots of dt.
ReadEntity(st) ==
    LET dt == st.remote
        d1 == Set(Set(Set(st.d, "name", dt.Name), "description", dt.Description),
                  "project_id", dt.ProjectID)
        d2 == flattenParameterCollection(d1, dt.Parameters)
    IN  [st EXCEPT !.d = IF Len(dt.VcsRootEntries) > 0
                         THEN Set(d2, "vcs_root", FlattenVcs(dt.VcsRootEntries))
                         ELSE d2]

\* client.BuildTypes.GetSteps(d.Id())
GetSteps(st, failAt) ==
    IF NextCallFails(st, failAt)
    THEN Failed(Called(st, "BuildTypes.GetSteps", NoStep), "BuildTypes.GetSteps")
    ELSE Called(st, "BuildTypes.GetSteps", NoStep)

\* The step list is written to d only when the server returned steps.
ReadSteps(st) ==
    IF Len(st.remote.Steps) > 0
    THEN CHOOSE r \in {IF IsErr(fl.err) THEN [st EXCEPT !.err = fl.err]
                       ELSE [st EXCEPT !.d = Set(@, "step", fl.out)] :
                           fl \in {FlattenSteps(st.remote.Steps, <<>>)}} : TRUE
    ELSE st

\* resourceBuildConfigurationRead, continuing the handler state st.
resourceBuildConfigurationRead(st, failAt) ==
    OrReturn(GetByID(st, failAt), LAMBDA s1 :
    OrReturn(GetSteps(ReadEntity(s1), failAt), LAMBDA s2 :
    ReadSteps(s2)))

\* NewBuildType, description, expandParameterCollection, BuildTypes.Create,
\* SetId and Partial(true).
CreateEntity(st, failAt, rej) ==
    LET dd == st.d
        projectID == IF GetOk(dd, "project_id") THEN dd["project_id"] ELSE ""
        name == IF GetOk(dd, "name") THEN dd["name"] ELSE ""
        description == IF GetOk(dd, "description") THEN dd["description"] ELSE ""
    IN  CHOOSE r \in
          {IF IsErr(params.err) THEN [st EXCEPT !.err = params.err]
           ELSE IF NextCallFails(st, failAt)
           THEN Failed(Called(st, "BuildTypes.Create", NoStep), "BuildTypes.Create")
           ELSE [Called(st, "BuildTypes.Create", NoStep) EXCEPT
                   !.remote = [exists |-> TRUE, ID |-> BuildTypeID, Name |-> name,
                               Description |-> description, ProjectID |-> projectID,
                               Parameters |-> params.out, VcsRootEntries |-> <<>>,
                               Steps |-> <<>>],
                   !.d = Put(dd, "id", BuildTypeID),
                   !.partial = TRUE] :
               params \in {expandParameterCollection(dd, rej)}} : TRUE

\* if v, ok := d.GetOk("vcs_root"); ok { ...; d.SetPartial("vcs_root") }
AttachVcsRoots(st, dd, failAt) ==
    IF GetOk(dd, "vcs_root")
    THEN OrReturn(AttachLoop(dd["vcs_root"], 1, st, failAt),
                  LAMBDA s : [s EXCEPT !.partialKeys = @ \cup {"vcs_root"}])
    ELSE st

\* if v, ok := d.GetOk("step"); ok { ...; d.SetPartial("step") }
AddSteps(st, dd, failAt) ==
    IF GetOk(dd, "step")
    THEN OrReturn(StepLoop(dd["step"], 1, st, failAt),
                  LAMBDA s : [s EXCEPT !.partialKeys = @ \cup {"step"}])
    ELSE st

resourceBuildConfigurationCreate(dd, rem, failAt, rej) ==
    PartialState(
        OrReturn(CreateEntity(NewState(dd, rem), failAt, rej), LAMBDA s1 :
        OrReturn(AttachVcsRoots(s1, dd, failAt), LAMBDA s2 :
        OrReturn(AddSteps(s2, dd, failAt), LAMBDA s3 :
        resourceBuildConfigurationRead([s3 EXCEPT !.partial = FALSE], failAt)))))

\* resourceBuildConfigurationUpdate returns nil without calling the client.
resourceBuildConfigurationUpdate(dd, rem) ==
    NewState(dd, rem)

resourceBuildConfigurationDelete(dd, rem, failAt) ==
    IF failAt = 1 \/ ~rem.exists
    THEN Failed(Called(NewState(dd, rem), "BuildTypes.Delete", NoStep), "BuildTypes.Delete")
    ELSE [Called(NewState(dd, rem), "BuildTypes.Delete", NoStep)
             EXCEPT !.remote = NoBuildType]

(* ---------------- build_configuration: the state machine --------------- *)

MaxVcs == 1

A == <<"a">>

Prev(l, c) == [op |-> l.op, err |-> l.err, calls |-> c]

NoPrev == [op |-> "", err |-> NoErr, calls |-> <<>>]

Start == [op |-> "init", err |-> NoErr, prev |-> NoPrev]

Done(o, e) == [op |-> o, err |-> e, prev |-> Prev(last, calls)]

\* No create, update or delete has run yet in this behaviour.
Fresh == last.op \in {"init", "read"} /\ last.prev.op \in {"", "init", "read"}

SupportedTypes == {"powershell", "cmd_line"}

\* Declarative step records: file mode, file and code together, inline code,
\* an empty file next to code, arguments without a file, no body at all, and
\* an engine the provider does not know.
StepRecords ==
    UNION {{ [type |-> t, name |-> A, file |-> A, args |-> A],
             [type |-> t, file |-> A, args |-> A, code |-> A],
             [type |-> t, code |-> A],
             [type |-> t, file |-> <<>>, code |-> A],
             [type |-> t, args |-> A, code |-> A],
             [type |-> t] } : t \in SupportedTypes}
    \cup {[type |-> "gradle", code |-> A]}

\* step is a set keyed by stepSetHash, which the schema applies to records
\* with every field present: no two members agree on type, name, file and
\* args.  The members are handled as the list Set.List() returns.
StepIdentity(m) == <<m["type"], FieldOr(m, "name"), FieldOr(m, "file"), FieldOr(m, "args")>>

StepLists ==
    {s \in SeqsUpTo(StepRecords, MaxSteps) :
        \A i, j \in DOMAIN s : i # j => StepIdentity(s[i]) # StepIdentity(s[j])}

VcsEntries ==
    {[id |-> "v1", checkout_rules |-> <<A>>], [id |-> "v2", checkout_rules |-> <<>>]}

\* vcs_root is a set keyed by id: lists without a repeated id.
VcsLists ==
    {s \in SeqsUpTo(VcsEntries, MaxVcs) : \A i, j \in DOMAIN s : i # j => s[i].id # s[j].id}

ParamKeys == {"env_params", "sys_params", "config_params"}

OneParam == [k \in {1} |-> "x"]

\* With or without a description, with or without a parameter of each kind,
\* with every list of VCS roots and every list of steps.
BuildTypeConfigs ==
    {[name |-> "bc", project_id |-> "p1", description |-> desc,
      env_params |-> pm, sys_params |-> pm, config_params |-> pm,
      vcs_root |-> v, step |-> st] :
        desc \in {"", "d1"}, pm \in {NoMap, OneParam},
        v \in VcsLists, st \in StepLists}

PriorBuildTypes ==
    { NoBuildType,
      [exists |-> TRUE, ID |-> BuildTypeID, Name |-> "bc", Description |-> "",
       ProjectID |-> "p1", Parameters |-> <<>>, VcsRootEntries |-> <<>>, Steps |-> <<>>],
      [exists |-> TRUE, ID |-> BuildTypeID, Name |-> "bc", Description |-> "d0",
       ProjectID |-> "p1",
       Parameters |-> <<[Type |-> ParamTypeEnv, Name |-> 1, Value |-> "old"]>>,
       VcsRootEntries |-> <<[ID |-> "v1", CheckoutRules |-> A]>>,
       Steps |-> <<NewStepCommandLineScript(<<>>, A)>>],
      [exists |-> TRUE, ID |-> BuildTypeID, Name |-> "bc", Description |-> "",
       ProjectID |-> "p1", Parameters |-> <<>>, VcsRootEntries |-> <<>>,
       Steps |-> <<[Type |-> "gradle-runner", Name |-> <<>>]>>] }

\* What an earlier run left in the state file.
PriorBuildTypeStates ==
    { [id |-> BuildTypeID, name |-> "bc", project_id |-> "p1", description |-> ""],
      [id |-> BuildTypeID, name |-> "bc", project_id |-> "p1", description |-> "d1",
       env_params |-> OneParam, sys_params |-> OneParam, config_params |-> OneParam,
       vcs_root |-> <<[id |-> "v2", checkout_rules |-> <<A>>]>>,
       step |-> <<[type |-> "powershell", file |-> A, args |-> A]>>] }

BCFailPoints == 0 .. (MaxVcs + MaxSteps + 3)

RejectSets == {{}, {1}}

InitBC ==
    /\ \/ d \in BuildTypeConfigs /\ remote = NoBuildType
       \/ d \in PriorBuildTypeStates /\ remote \in PriorBuildTypes
    /\ cfg = [d |-> d, remote |-> remote]
    /\ calls = <<>>
    /\ last = Start

BCCreate ==
    /\ last.op = "init" /\ ~Has(d, "id")
    /\ \E failAt \in BCFailPoints, rej \in RejectSets :
         \E r \in {resourceBuildConfigurationCreate(d, remote, failAt, rej)} :
             /\ failAt <= Len(r.calls)
             /\ d' = r.d
             /\ remote' = r.remote
             /\ calls' = r.calls
             /\ last' = Done("create", r.err)
    /\ cfg' = [d |-> d, remote |-> remote]

\* One refresh after each operation.
BCRead ==
    /\ Has(d, "id") /\ last.op # "read"
    /\ \E failAt \in 0..2 :
         \E r \in {resourceBuildConfigurationRead(NewState(d, remote), failAt)} :
             /\ failAt <= Len(r.calls)
             /\ d' = r.d
             /\ calls' = r.calls
             /\ last' = Done("read", r.err)
    /\ UNCHANGED <<remote, cfg>>

BCUpdate ==
    /\ Has(d, "id") /\ Fresh
    /\ \E r \in {resourceBuildConfigurationUpdate(d, remote)} :
           /\ d' = r.d
           /\ remote' = r.remote
           /\ calls' = r.calls
           /\ last' = Done("update", r.err)
    /\ cfg' = [d |-> d, remote |-> remote]

BCDelete ==
    /\ Has(d, "id") /\ Fresh
    /\ \E failAt \in 0..1 :
         \E r \in {resourceBuildConfigurationDelete(d, remote, failAt)} :
             /\ d' = IF IsErr(r.err) THEN r.d ELSE NoMap
             /\ remote' = r.remote
             /\ calls' = r.calls
             /\ last' = Done("delete", r.err)
    /\ cfg' = [d |-> d, remote |-> remote]

NextBC == BCCreate \/ BCRead \/ BCUpdate \/ BCDelete

SpecBuildConfiguration == InitBC /\ [][NextBC]_vars

(* -------------------------- project handlers --------------------------- *)

NumProjectKeys == 1

NoProject ==
    [exists |-> FALSE, ID |-> "", Name |-> "", Description |-> "", Parameters |-> <<>>]

ProjectID == "P1"

\* client.Projects.GetByID(d.Id())
ProjectGetByID(st, failAt) ==
    IF NextCallFails(st, failAt) \/ ~st.remote.exists
    THEN Failed(Called(st, "Projects.GetByID", NoStep), "Projects.GetByID")
    ELSE Called(st, "Projects.GetByID", NoStep)

\* client.Projects.Update(dt): the server stores the entity it is sent.
ProjectsUpdate(st, dt, failAt) ==
    IF NextCallFails(st, failAt)
    THEN Failed(Called(st, "Projects.Update", NoStep), "Projects.Update")
    ELSE [Called(st, "Projects.Update", NoStep) EXCEPT !.remote = dt]

OverlayMerged(st, failAt, rej) ==
    CHOOSE r \in
      {IF IsErr(params.err) THEN [st EXCEPT !.err = params.err]
       ELSE ProjectsUpdate(st,
                [st.remote EXCEPT
                   !.Description = IF GetOk(st.d, "description")
                                   THEN st.d["description"] ELSE @,
                   !.Parameters = Concat(@, params.out)],
                failAt) :
           params \in {expandParameterCollection(st.d, rej)}} : TRUE

\* dt.Description = v; dt.Parameters, err = expandParameterCollection(d);
\* client.Projects.Update(dt)
Overlay(st, failAt, rej) ==
    CHOOSE r \in
      {IF IsErr(params.err) THEN [st EXCEPT !.err = params.err]
       ELSE ProjectsUpdate(st,
                [st.remote EXCEPT
                   !.Description = IF GetOk(st.d, "description")
                                   THEN st.d["description"] ELSE @,
                   !.Parameters = params.out],
                failAt) :
           params \in {expandParameterCollection(st.d, rej)}} : TRUE

resourceProjectUpdate(st, failAt, rej) ==
    OrReturn(ProjectGetByID(st, failAt), LAMBDA s : Overlay(s, failAt, rej))

resourceProjectRead(st, failAt) ==
    OrReturn(ProjectGetByID(st, failAt), LAMBDA s :
        [s EXCEPT !.d = flattenParameterCollection(
                            Set(Set(s.d, "name", s.remote.Name),
                                "description", s.remote.Description),
                            s.remote.Parameters)])

\* api.NewProject(name, "", ""); client.Projects.Create(newProj); d.SetId
ProjectsCreate(st, failAt) ==
    IF NextCallFails(st, failAt)
    THEN Failed(Called(st, "Projects.Create", NoStep), "Projects.Create")
    ELSE [Called(st, "Projects.Create", NoStep) EXCEPT
            !.remote = [exists |-> TRUE, ID |-> ProjectID,
                        Name |-> IF GetOk(st.d, "name") THEN st.d["name"] ELSE "",
                        Description |-> "", Parameters |-> <<>>],
            !.d = Put(@, "id", ProjectID)]

resourceProjectCreate(dd, rem, failAt, rej) ==
    OrReturn(ProjectsCreate(NewState(dd, rem), failAt), LAMBDA s :
        resourceProjectUpdate(s, failAt, rej))

resourceProjectDelete(dd, rem, failAt) ==
    IF failAt = 1 \/ ~rem.exists
    THEN Failed(Called(NewState(dd, rem), "Projects.Delete", NoStep), "Projects.Delete")
    ELSE [Called(NewState(dd, rem), "Projects.Delete", NoStep) EXCEPT !.remote = NoProject]

(* ----------------------- project: the state machine -------------------- *)

ProjectKeys == 1..NumProjectKeys

ParamValues == {"x", "y"}

\* Every map over a set of keys.
Maps(K, V) == UNION {[ks -> V] : ks \in SUBSET K}

\* name and description are always given; each parameter map is absent,
\* empty or any map.
ProjectConfigs ==
    UNION {{[k \in {"name", "description"} \cup ks |->
               IF k = "name" THEN "p"
               ELSE IF k = "description" THEN desc
               ELSE pm[k]] :
                 desc \in {"", "d1"}, pm \in [ks -> Maps(ProjectKeys, ParamValues)]} :
           ks \in SUBSET ParamKeys}

OldParams(kinds) ==
    ExpandKeys([k \in {1} |-> "old"], IF ParamTypeConfiguration \in kinds THEN {1} ELSE {},
               ParamTypeConfiguration, <<>>)
    \o ExpandKeys([k \in {1} |-> "old"], IF ParamTypeSystem \in kinds THEN {1} ELSE {},
                  ParamTypeSystem, <<>>)
    \o ExpandKeys([k \in {1} |-> "old"], IF ParamTypeEnv \in kinds THEN {1} ELSE {},
                  ParamTypeEnv, <<>>)

\* Projects an earlier run, or somebody else, left on the server.
PriorProjects ==
    {NoProject} \cup
    {[exists |-> TRUE, ID |-> ProjectID, Name |-> "p",
      Description |-> IF kinds = {} THEN "" ELSE "d0",
      Parameters |-> OldParams(kinds)] :
        kinds \in {{}, {ParamTypeEnv}, {ParamTypeSystem, ParamTypeConfiguration},
                   {ParamTypeEnv, ParamTypeSystem, ParamTypeConfiguration}}}

InitProject ==
    /\ \/ d \in ProjectConfigs /\ remote = NoProject
       \/ /\ d \in {Put(c, "id", ProjectID) : c \in ProjectConfigs}
          /\ remote \in PriorProjects
    /\ cfg = [d |-> d, remote |-> remote]
    /\ calls = <<>>
    /\ last = Start

ProjectRejectSets == {{}} \cup {{k} : k \in ProjectKeys}

ProjectCreate ==
    /\ last.op = "init" /\ ~Has(d, "id")
    /\ \E failAt \in 0..3, rej \in ProjectRejectSets :
         \E r \in {resourceProjectCreate(d, remote, failAt, rej)} :
             /\ failAt <= Len(r.calls)
             /\ d' = r.d
             /\ remote' = r.remote
             /\ calls' = r.calls
             /\ last' = Done("create", r.err)
    /\ cfg' = [d |-> d, remote |-> remote]

\* One refresh after each operation.
ProjectRead ==
    /\ Has(d, "id") /\ last.op # "read"
    /\ \E failAt \in 0..1 :
         \E r \in {resourceProjectRead(NewState(d, remote), failAt)} :
             /\ d' = r.d
             /\ calls' = r.calls
             /\ last' = Done("read", r.err)
    /\ UNCHANGED <<remote, cfg>>

ProjectUpdate ==
    /\ Has(d, "id") /\ Fresh
    /\ \E failAt \in 0..2, rej \in ProjectRejectSets :
         \E r \in {resourceProjectUpdate(NewState(d, remote), failAt, rej)} :
             /\ failAt <= Len(r.calls)
             /\ d' = r.d
             /\ remote' = r.remote
             /\ calls' = r.calls
             /\ last' = Done("update", r.err)
    /\ cfg' = [d |-> d, remote |-> remote]

ProjectDelete ==
    /\ Has(d, "id") /\ Fresh
    /\ \E failAt \in 0..1 :
         \E r \in {resourceProjectDelete(d, remote, failAt)} :
             /\ d' = IF IsErr(r.err) THEN r.d ELSE NoMap
             /\ remote' = r.remote
             /\ calls' = r.calls
             /\ last' = Done("delete", r.err)
    /\ cfg' = [d |-> d, remote |-> remote]

NextProject == ProjectCreate \/ ProjectRead \/ ProjectUpdate \/ ProjectDelete

SpecProject == InitProject /\ [][NextProject]_vars

(* ------------------- the codecs as pure functions ---------------------- *)

NumKeys == 2

KeyNames == 1..NumKeys

\* env_params, sys_params and config_params, each absent, empty or any map.
ParamInputs ==
    UNION {[ks -> Maps(KeyNames, {"", "x"})] : ks \in SUBSET ParamKeys}

InitParams ==
    /\ cfg \in ParamInputs
    /\ d = NoMap
    /\ remote = <<>>
    /\ calls = <<>>
    /\ last = Start

ExpandParams ==
    /\ last.op = "init"
    /\ \E rej \in {{}} \cup {{k} : k \in KeyNames} :
         \E r \in {expandParameterCollection(cfg, rej)} :
             /\ remote' = r.out
             /\ last' = Done("expand", r.err)
    /\ UNCHANGED <<d, cfg, calls>>

FlattenParams ==
    /\ last.op = "expand" /\ ~IsErr(last.err)
    /\ d' = flattenParameterCollection(NoMap, remote)
    /\ last' = Done("flatten", NoErr)
    /\ UNCHANGED <<cfg, remote, calls>>

NextParams == ExpandParams \/ FlattenParams

SpecParams == InitParams /\ [][NextParams]_vars

MaxFieldLen == 1

FieldChars == {"a", "-"}

FieldStrs == SeqsUpTo(FieldChars, MaxFieldLen)

\* Step records as the hasher may be handed them: type always, each of name,
\* file and args absent or any string.
HashRecords ==
    UNION {{[k \in {"type"} \cup ks |-> IF k = "type" THEN t ELSE f[k]] :
               t \in SupportedTypes, f \in [ks -> FieldStrs]} :
           ks \in SUBSET {"name", "file", "args"}}

InitHash ==
    /\ cfg \in HashRecords
    /\ d = NoMap
    /\ remote = <<>>
    /\ calls = <<>>
    /\ last = Start

\* The texts of two records side by side.
HashSteps ==
    /\ last.op = "init"
    /\ \E other \in HashRecords :
         /\ d' = other
         /\ remote' = <<stepSetHashText(cfg), stepSetHashText(other)>>
    /\ last' = Done("hash", NoErr)
    /\ UNCHANGED <<cfg, calls>>

SpecHash == InitHash /\ [][HashSteps]_vars

\* Steps as the server may return them: either engine with every combination
\* of name, file, arguments and inline content, and an engine the provider
\* has no mapping for.
RemoteSteps ==
    {[Type |-> StepTypePowershell, Name |-> n, ScriptFile |-> f, ScriptArgs |-> a,
      Code |-> c] : n \in FieldStrs, f \in FieldStrs, a \in FieldStrs, c \in FieldStrs}
    \cup
    {[Type |-> StepTypeCommandLine, Name |-> n, CommandExecutable |-> f,
      CommandParameters |-> a, CustomScript |-> c] :
        n \in FieldStrs, f \in FieldStrs, a \in FieldStrs, c \in FieldStrs}
    \cup {[Type |-> "gradle-runner", Name |-> n] : n \in FieldStrs}

InitStep ==
    /\ cfg \in RemoteSteps
    /\ d = NoMap
    /\ remote = cfg
    /\ calls = <<>>
    /\ last = Start

FlattenStep ==
    /\ last.op = "init"
    /\ \E l \in {flattenBuildStep(cfg)} :
         /\ d' = l.out
         /\ last' = Done("flatten", l.err)
    /\ UNCHANGED <<cfg, remote, calls>>

ExpandStep ==
    /\ last.op = "flatten" /\ ~IsErr(last.err)
    /\ \E e \in {expandBuildStep(d)} :
         /\ remote' = e.step
         /\ last' = Done("expand", e.err)
    /\ UNCHANGED <<d, cfg, calls>>

\* The second flattening is kept in calls, next to the first one in d.
ReflattenStep ==
    /\ last.op = "expand" /\ ~IsErr(last.err)
    /\ \E l \in {flattenBuildStep(remote)} :
         /\ calls' = <<l.out>>
         /\ last' = Done("reflatten", l.err)
    /\ UNCHANGED <<d, cfg, remote>>

NextStep == FlattenStep \/ ExpandStep \/ ReflattenStep

SpecStep == InitStep /\ [][NextStep]_vars

MaxRuleLen == 2

RuleChars == {"a", "\\", "n"}

RuleStrs == SeqsUpTo(RuleChars, MaxRuleLen)

RuleLists == SeqsUpTo(RuleStrs, MaxRules)

InitRules ==
    /\ cfg \in RuleLists
    /\ d = NoMap
    /\ remote = <<>>
    /\ calls = <<>>
    /\ last = Start

AttachRules ==
    /\ last.op = "init"
    /\ remote' = buildVcsRootEntry([id |-> "v1", checkout_rules |-> cfg])
    /\ last' = Done("attach", NoErr)
    /\ UNCHANGED <<d, cfg, calls>>

ReadRules ==
    /\ last.op = "attach"
    /\ d' = flattenVcsRootEntry(remote)
    /\ last' = Done("read", NoErr)
    /\ UNCHANGED <<cfg, remote, calls>>

NextRules == AttachRules \/ ReadRules

SpecRules == InitRules /\ [][NextRules]_vars

(* ============================== claims ================================= *)

ShownMap(dd, k) == IF Has(dd, k) THEN dd[k] ELSE NoMap

ShownList(dd, k) == IF Has(dd, k) THEN dd[k] ELSE <<>>

AddStepCalls(c) == SelectSeq(c, LAMBDA x : x.name = "AddStep")

CallNames(c) == {c[i].name : i \in DOMAIN c}

\* The collaborator call that failed, 0 when every call succeeded.
FailedCall(c) == IF \E i \in DOMAIN c : ~c[i].ok
                 THEN CHOOSE i \in DOMAIN c : ~c[i].ok ELSE 0

StepFile(s) == IF s.Type = StepTypePowershell THEN s.ScriptFile ELSE s.CommandExecutable

StepArgs(s) == IF s.Type = StepTypePowershell THEN s.ScriptArgs ELSE s.CommandParameters

StepCode(s) == IF s.Type = StepTypePowershell THEN s.Code ELSE s.CustomScript

IsSupported(s) == s.Type \in {StepTypePowershell, StepTypeCommandLine}

\* C1: expanding the three per-kind maps and flattening the resulting
\* collection into an empty state gives back every kind that has entries
\* unchanged and leaves every kind without entries absent, also when the same
\* key is used in several kinds.
C1_ParamRoundTrip ==
    last.op = "flatten" =>
        \A k \in ParamKeys :
            IF Has(cfg, k) /\ DOMAIN cfg[k] # {}
            THEN Has(d, k) /\ d[k] = cfg[k]
            ELSE ~Has(d, k)

C1_Witness ==
    /\ last.op = "flatten"
    /\ Has(cfg, "env_params") /\ Has(cfg, "sys_params") /\ Has(cfg, "config_params")
    /\ DOMAIN cfg["env_params"] = KeyNames
    /\ 1 \in DOMAIN cfg["sys_params"]
    /\ cfg["env_params"][1] # cfg["sys_params"][1]
    /\ cfg["config_params"] = NoMap
    /\ d["sys_params"][1] = cfg["sys_params"][1]
    /\ ~Has(d, "config_params")

\* C2: when the AddStep call for the j-th step fails, Create returns that
\* error and makes no further call; the entity exists with every VCS root and
\* exactly the first j-1 steps, and a following Read shows exactly those steps.
C2_PartialCreate ==
    /\ (last.op = "create" /\ FailedCall(calls) # 0
            /\ calls[FailedCall(calls)].name = "AddStep") =>
         LET j == Len(AddStepCalls(calls))
         IN  /\ last.err = Err("AddStep", "")
             /\ FailedCall(calls) = Len(calls)
             /\ "BuildTypes.Delete" \notin CallNames(calls)
             /\ remote.exists
             /\ remote.VcsRootEntries =
                    [i \in DOMAIN cfg.d["vcs_root"] |-> buildVcsRootEntry(cfg.d["vcs_root"][i])]
             /\ remote.Steps = [i \in 1..(j - 1) |-> AddStepCalls(calls)[i].step]
             /\ \A i \in 1..(j - 1) :
                    remote.Steps[i] = expandBuildStep(cfg.d["step"][i]).step
    /\ (last.op = "read" /\ ~IsErr(last.err) /\ last.prev.op = "create"
            /\ last.prev.err = Err("AddStep", "")) =>
         LET j == Len(AddStepCalls(last.prev.calls))
         IN  ShownList(d, "step") =
                 [i \in 1..(j - 1) |->
                     flattenBuildStep(AddStepCalls(last.prev.calls)[i].step).out]

C2_Witness ==
    /\ last.op = "read" /\ ~IsErr(last.err)
    /\ last.prev.op = "create" /\ last.prev.err = Err("AddStep", "")
    /\ Len(AddStepCalls(last.prev.calls)) = 2
    /\ Len(cfg.d["vcs_root"]) = 1
    /\ Len(remote.VcsRootEntries) = 1
    /\ Len(remote.Steps) = 1
    /\ Len(d["step"]) = 1

\* C3: two step records get the same hash text exactly when their tuples
\* (type, name, file, args) are equal, an absent field counting as empty.
C3_HashTuple ==
    last.op = "hash" =>
        ((remote[1] = remote[2]) <=>
            (<<cfg["type"], FieldOr(cfg, "name"), FieldOr(cfg, "file"), FieldOr(cfg, "args")>>
             = <<d["type"], FieldOr(d, "name"), FieldOr(d, "file"), FieldOr(d, "args")>>))

\* C4: flattening a step of a supported engine sets file (and args only when
\* non-empty) when the file path is non-empty, sets code only when the file
\* path is empty and the content is non-empty, and never sets file and code
\* together.
C4_FileFirst ==
    (last.op = "flatten" /\ IsSupported(cfg)) =>
        /\ Has(d, "file") <=> StepFile(cfg) # <<>>
        /\ Has(d, "file") => d["file"] = StepFile(cfg)
        /\ Has(d, "args") <=> (StepFile(cfg) # <<>> /\ StepArgs(cfg) # <<>>)
        /\ Has(d, "args") => d["args"] = StepArgs(cfg)
        /\ Has(d, "code") <=> (StepFile(cfg) = <<>> /\ StepCode(cfg) # <<>>)
        /\ Has(d, "code") => d["code"] = StepCode(cfg)
        /\ ~(Has(d, "file") /\ Has(d, "code"))

\* C5: for a step of a supported engine with a non-empty file path,
\* flattening, expanding and flattening again gives the first flattening.
C5_ReExpand ==
    (last.op = "reflatten" /\ IsSupported(cfg) /\ StepFile(cfg) # <<>>) =>
        /\ ~IsErr(last.err)
        /\ calls[1] = d

C6_WitnessEmptyBody ==
    /\ last.op = "create" /\ ~IsErr(last.err)
    /\ Len(cfg.d["step"]) = 1
    /\ DOMAIN cfg.d["step"][1] = {"type"}
    /\ Len(remote.Steps) = 1
    /\ StepCode(remote.Steps[1]) = <<>> /\ StepFile(remote.Steps[1]) = <<>>

\* The declarative state shows what the server holds.
ShowsProject(dd, rem) ==
    /\ ShownMap(dd, "env_params") = flattenParameters(rem.Parameters).env
    /\ ShownMap(dd, "sys_params") = flattenParameters(rem.Parameters).sys
    /\ ShownMap(dd, "config_params") = flattenParameters(rem.Parameters).config

\* C7: a successful Create ends with a Read of the created entity, so the
\* declarative state is the flattening of what the server persisted.
C7_CreateEndsWithRead ==
    (last.op = "create" /\ ~IsErr(last.err)) =>
        /\ calls[Len(calls)].name = "Projects.GetByID"
        /\ d["name"] = remote.Name
        /\ d["description"] = remote.Description
        /\ ShowsProject(d, remote)

KindOf(k) ==
    IF k = "env_params" THEN ParamTypeEnv
    ELSE IF k = "sys_params" THEN ParamTypeSystem
    ELSE ParamTypeConfiguration

\* The parameters the declarative maps of dd name.
DeclaredParams(dd) ==
    UNION {{[Type |-> KindOf(k), Name |-> n, Value |-> dd[k][n]] : n \in DOMAIN dd[k]} :
           k \in {x \in ParamKeys : Has(dd, x)}}

\* C8: after a successful project Update the server's parameters are exactly
\* the declared ones, whatever it held before; name and id are unchanged and
\* the description is the declared one when set.  When the fetch or the
\* expansion fails no Update call is sent and the server is unchanged.
C8_UpdateReplaces ==
    last.op = "update" =>
        IF ~IsErr(last.err)
        THEN /\ Range(remote.Parameters) = DeclaredParams(cfg.d)
             /\ Len(remote.Parameters) = Cardinality(DeclaredParams(cfg.d))
             /\ remote.Name = cfg.remote.Name
             /\ remote.ID = cfg.remote.ID
             /\ GetOk(cfg.d, "description") => remote.Description = cfg.d["description"]
        ELSE last.err.msg \in {"Projects.GetByID", "NewParameter"} =>
                 /\ "Projects.Update" \notin CallNames(calls)
                 /\ remote = cfg.remote

C8_Witness ==
    /\ last.op = "update" /\ ~IsErr(last.err)
    /\ Len(cfg.remote.Parameters) = 3
    /\ ~Has(cfg.d, "env_params")
    /\ Has(cfg.d, "sys_params") /\ cfg.d["sys_params"] = [k \in {1} |-> "y"]
    /\ Has(cfg.d, "config_params") /\ cfg.d["config_params"] = NoMap
    /\ Len(remote.Parameters) = 1

C8_WitnessExpandFails ==
    /\ last.op = "update" /\ last.err.msg = "NewParameter"
    /\ cfg.remote.exists
    /\ Len(calls) = 1

\* C9: after a successful Read the parameter maps, the VCS roots and the
\* steps of the declarative state are the flattening of what the server
\* holds, whatever the state held before.
C9_ReadConverges ==
    (last.op = "read" /\ ~IsErr(last.err)) =>
        /\ ShowsProject(d, remote)
        /\ ShownList(d, "vcs_root") = FlattenVcs(remote.VcsRootEntries)
        /\ ShownList(d, "step") = FlattenSteps(remote.Steps, <<>>).out

\* C10: joining a list of checkout rules as buildVcsRootEntry does and
\* splitting the result as Read does gives back the same list.
C10_RulesRoundTrip ==
    last.op = "read" => d["checkout_rules"] = cfg

====
